---------------------------- MODULE Spec2Model ----------------------------
(***************************************************************************)
(* Model of django/core/cache.py: the cache backends and the get_cache     *)
(* factory.  Text is modelled as sequences of one-character strings, so    *)
(* that the descriptor parsing and the int() coercions are computed the    *)
(* way the code computes them.                                             *)
(***************************************************************************)
EXTENDS Integers, Sequences, FiniteSets, TLC

VARIABLES
    pc,               \* "start" before get_cache, then "ready" or "failed"
    uri,              \* the descriptor handed to get_cache (CACHE_BACKEND)
    memcache_ok,      \* whether "import memcache" succeeded (line 128)
    raised,           \* "none", or the exception get_cache ended in
    backend,          \* "none", "simple" or "memcached": the class constructed
    host,             \* first constructor argument
    params,           \* second constructor argument (a dict of strings)
    default_timeout,  \* _Cache.default_timeout
    _max_entries,     \* _SimpleCache._max_entries
    _cull_frequency,  \* _SimpleCache._cull_frequency
    _cache,           \* _SimpleCache._cache: key -> value
    _expire_info,     \* _SimpleCache._expire_info: key -> absolute expiration
    order,            \* iteration order of the _cache dict (sequence of keys)
    now,              \* the value time.time() returns
    last,             \* the last completed call: its name, arguments, result
    client,           \* _MemcachedCache._cache: the memcache.Client and its server
    callers,          \* per caller: where its call stands, and the call's locals
    overlapped        \* whether a caller ever ran while another was inside a call

vars == <<pc, uri, memcache_ok, raised, backend, host, params, default_timeout,
          _max_entries, _cull_frequency, _cache, _expire_info, order, now, last,
          client, callers, overlapped>>

-----------------------------------------------------------------------------
(* Python values and text *)

None == "None"

EmptyDict == [k \in {} |-> None]

\* s[lo:hi] with 0 <= lo, as Python slices a string (0-based, hi exclusive)
Slice(s, lo, hi) ==
    LET h == IF hi > Len(s) THEN Len(s) ELSE hi
    IN IF lo >= h THEN <<>> ELSE SubSeq(s, lo + 1, h)

\* s[lo:]
SliceFrom(s, lo) == Slice(s, lo, Len(s))

\* s.find(c): 0-based index of the first occurrence of the character c, or -1
Find(s, c) ==
    IF \E i \in 1..Len(s) : s[i] = c
    THEN (CHOOSE i \in 1..Len(s) : s[i] = c /\ \A j \in 1..(i - 1) : s[j] # c) - 1
    ELSE -1

\* s.startswith(p)
StartsWith(s, p) == Len(s) >= Len(p) /\ SubSeq(s, 1, Len(p)) = p

\* s.endswith(c) for a one-character c
EndsWith(s, c) == Len(s) >= 1 /\ s[Len(s)] = c

\* s.split(c): the list of the pieces of s between occurrences of c
RECURSIVE Split(_, _)
Split(s, c) ==
    LET i == Find(s, c)
    IN IF i = -1 THEN <<s>>
       ELSE <<Slice(s, 0, i)>> \o Split(SliceFrom(s, i + 1), c)

\* s.split(c, 1): at most one split
Split1(s, c) ==
    LET i == Find(s, c)
    IN IF i = -1 THEN <<s>> ELSE <<Slice(s, 0, i), SliceFrom(s, i + 1)>>

\* s.replace('+', ' ')
PlusToSpace(s) == [i \in 1..Len(s) |-> IF s[i] = "+" THEN " " ELSE s[i]]

\* the %XX escapes urllib.unquote decodes, for the characters the model uses
HexChar == (<<"2", "F">> :> "/") @@ (<<"3", "D">> :> "=") @@
           (<<"3", "2">> :> "2") @@ (<<"3", "5">> :> "5") @@
           (<<"2", "6">> :> "&")

\* urllib.unquote(s): every %XX with a known code is replaced by its character
RECURSIVE Unquote(_)
Unquote(s) ==
    IF s = <<>> THEN <<>>
    ELSE IF s[1] = "%" /\ Len(s) >= 3 /\ <<s[2], s[3]>> \in DOMAIN HexChar
         THEN <<HexChar[<<s[2], s[3]>>]>> \o Unquote(SliceFrom(s, 3))
         ELSE <<s[1]>> \o Unquote(SliceFrom(s, 1))

RECURSIVE Flatten(_)
Flatten(ss) == IF ss = <<>> THEN <<>> ELSE Head(ss) \o Flatten(Tail(ss))

\* one name=value piece of cgi.parse_qsl: nothing without '=' or with a blank value
QslPair(name_value) ==
    LET nv == Split1(name_value, "=")
    IN IF Len(nv) # 2 THEN <<>>
       ELSE IF Len(nv[2]) = 0 THEN <<>>
       ELSE << <<Unquote(PlusToSpace(nv[1])), Unquote(PlusToSpace(nv[2]))>> >>

\* cgi.parse_qsl(qs): the (name, value) pairs of a query string, in order
parse_qsl(qs) ==
    LET byAmp  == Split(qs, "&")
        pieces == Flatten([i \in 1..Len(byAmp) |-> Split(byAmp[i], ";")])
    IN Flatten([i \in 1..Len(pieces) |-> QslPair(pieces[i])])

\* dict(pairs): a later pair with the same name replaces an earlier one
RECURSIVE dict(_)
dict(pairs) ==
    IF pairs = <<>> THEN EmptyDict
    ELSE LET n == Len(pairs)
             d == dict(SubSeq(pairs, 1, n - 1))
             k == pairs[n][1]
         IN (k :> pairs[n][2]) @@ d

DigitVal == ("0" :> 0) @@ ("1" :> 1) @@ ("2" :> 2) @@ ("3" :> 3) @@ ("4" :> 4) @@
            ("5" :> 5) @@ ("6" :> 6) @@ ("7" :> 7) @@ ("8" :> 8) @@ ("9" :> 9)

RECURSIVE DigitsVal(_)
DigitsVal(s) ==
    IF s = <<>> THEN 0 ELSE 10 * DigitsVal(SubSeq(s, 1, Len(s) - 1)) + DigitVal[s[Len(s)]]

\* text.strip(): leading and trailing blanks removed
RECURSIVE Strip(_)
Strip(s) ==
    IF s # <<>> /\ s[1] = " " THEN Strip(Tail(s))
    ELSE IF s # <<>> /\ s[Len(s)] = " " THEN Strip(SubSeq(s, 1, Len(s) - 1))
    ELSE s

\* int(text): [ok |-> TRUE, val |-> n], or ok = FALSE where int raises ValueError
int(text) ==
    LET t      == Strip(text)
        signed == t # <<>> /\ t[1] \in {"-", "+"}
        digits == IF signed THEN Tail(t) ELSE t
    IN IF digits # <<>> /\ \A i \in 1..Len(digits) : digits[i] \in DOMAIN DigitVal
       THEN [ok |-> TRUE,
             val |-> IF signed /\ t[1] = "-" THEN 0 - DigitsVal(digits) ELSE DigitsVal(digits)]
       ELSE [ok |-> FALSE, val |-> 0]

-----------------------------------------------------------------------------
(* Names the code writes as string literals *)

S_simple == <<"s", "i", "m", "p", "l", "e">>
S_memcached == <<"m", "e", "m", "c", "a", "c", "h", "e", "d">>
S_timeout == <<"t", "i", "m", "e", "o", "u", "t">>
S_max_entries == <<"m", "a", "x", "_", "e", "n", "t", "r", "i", "e", "s">>
S_cull_frequency == <<"c", "u", "l", "l", "_", "f", "r", "e", "q", "u", "e", "n", "c", "y">>

-----------------------------------------------------------------------------
(* Backend constructors *)

DEFAULT_TIMEOUT == 300
DEFAULT_MAX_ENTRIES == 300
DEFAULT_CULL_FREQUENCY == 3

\* an except clause that names TypeError alone
CaughtTypeErrorOnly == {"TypeError"}

\* the exceptions the "except (ValueError, TypeError)" clauses catch
CaughtByInit == {"ValueError", "TypeError"}

\* try: x = int(v) / except (ValueError, TypeError): x = dflt, for v = p.get(name, dflt)
\* (the values of p are text; a missing name gives the integer dflt itself)
Coerce(p, name, dflt) ==
    IF name \notin DOMAIN p THEN [raised |-> "none", val |-> dflt]
    ELSE LET r == int(p[name])
         IN IF r.ok THEN [raised |-> "none", val |-> r.val]
            ELSE IF "ValueError" \in CaughtByInit THEN [raised |-> "none", val |-> dflt]
            ELSE [raised |-> "ValueError", val |-> dflt]

\* _Cache.__init__(params)
Cache_init(p) == Coerce(p, S_timeout, DEFAULT_TIMEOUT)

\* _SimpleCache.__init__(host, params): the fields of the new object
SimpleCache_init(h, p) ==
    LET t == Cache_init(p)
        m == Coerce(p, S_max_entries, DEFAULT_MAX_ENTRIES)
        f == Coerce(p, S_cull_frequency, DEFAULT_CULL_FREQUENCY)
    IN [raised |-> IF t.raised # "none" THEN t.raised
                   ELSE IF m.raised # "none" THEN m.raised ELSE f.raised,
        default_timeout |-> t.val, _max_entries |-> m.val, _cull_frequency |-> f.val]

\* _MemcachedCache.__init__(server, params)
MemcachedCache_init(h, p) ==
    LET t == Cache_init(p)
    IN [raised |-> t.raised, default_timeout |-> t.val,
        _max_entries |-> 0, _cull_frequency |-> 0]

-----------------------------------------------------------------------------
(* get_cache *)

\* _BACKENDS: scheme -> class; _MemcachedCache is None when the import failed
BACKENDS(imported) ==
    (S_memcached :> (IF imported THEN "memcached" ELSE None)) @@ (S_simple :> "simple")

\* the host and params get_cache computes from rest, the text after "scheme:"
HostOf(rest) ==
    LET qpos == Find(rest, "?")
        h    == IF qpos # -1 THEN Slice(rest, 0, qpos) ELSE SliceFrom(rest, 2)
    IN IF EndsWith(h, "/") THEN Slice(h, 0, Len(h) - 1) ELSE h

ParamsOf(rest) ==
    LET qpos == Find(rest, "?")
    IN IF qpos # -1 THEN dict(parse_qsl(SliceFrom(rest, qpos + 1))) ELSE EmptyDict

NoBackend ==
    [raised |-> "InvalidCacheBackendError", backend |-> "none", host |-> <<>>,
     params |-> EmptyDict, default_timeout |-> 0, _max_entries |-> 0, _cull_frequency |-> 0]

\* get_cache(backend_uri): what it raises, or the backend it constructs
get_cache(backend_uri, imported) ==
    IF Find(backend_uri, ":") = -1 THEN NoBackend
    ELSE LET sr     == Split1(backend_uri, ":")
             scheme == sr[1]
             rest   == sr[2]
         IN IF ~StartsWith(rest, <<"/", "/">>) THEN NoBackend
            ELSE IF scheme \notin DOMAIN BACKENDS(imported) THEN NoBackend
            ELSE LET h   == HostOf(rest)
                     p   == ParamsOf(rest)
                     cls == BACKENDS(imported)[scheme]
                     obj == IF cls = "simple" THEN SimpleCache_init(h, p)
                            ELSE MemcachedCache_init(h, p)
                 IN IF cls = None
                    THEN [NoBackend EXCEPT !.raised = "TypeError"]
                    ELSE [raised |-> obj.raised,
                          backend |-> IF obj.raised = "none" THEN cls ELSE "none",
                          host |-> h, params |-> p,
                          default_timeout |-> obj.default_timeout,
                          _max_entries |-> obj._max_entries,
                          _cull_frequency |-> obj._cull_frequency]

-----------------------------------------------------------------------------
(* _SimpleCache: the operations on the two maps.  A store st is the record   *)
(* [c |-> _cache, e |-> _expire_info, o |-> iteration order of _cache].      *)

Store == [c |-> _cache, e |-> _expire_info, o |-> order]

\* del d[key] on a map
Remove(d, key) == [k \in DOMAIN d \ {key} |-> d[k]]

\* the key order of a dict after del d[key]
Without(o, key) == SelectSeq(o, LAMBDA k : k # key)

\* a read that also treats an entry expiring at the very time of the read as expired
IsExpiredInclusive(exp, t) == exp <= t

\* "exp is not None and exp < now" (line 185); every stored expiration is a number
IsExpired(exp, t) == exp < t

\* a get whose purge of an expired entry forgets the expiration map
getPurgeCacheOnly(st, key, default, t) ==
    LET exp == IF key \in DOMAIN st.e THEN st.e[key] ELSE t
    IN IF IsExpired(exp, t)
       THEN IF key \notin DOMAIN st.c
            THEN [st |-> st, ret |-> None, exc |-> "KeyError"]
            ELSE [st |-> [c |-> Remove(st.c, key), e |-> st.e,
                          o |-> Without(st.o, key)],
                  ret |-> default, exc |-> "none"]
       ELSE [st |-> st,
             ret |-> IF key \in DOMAIN st.c THEN st.c[key] ELSE default,
             exc |-> "none"]

\* _SimpleCache.get(key, default) at time t: the store after it and what it returns
get(st, key, default, t) ==
    LET exp == IF key \in DOMAIN st.e THEN st.e[key] ELSE t
    IN IF IsExpired(exp, t)
       THEN IF key \notin DOMAIN st.c
            THEN [st |-> st, ret |-> None, exc |-> "KeyError"]
            ELSE [st |-> [c |-> Remove(st.c, key), e |-> Remove(st.e, key),
                          o |-> Without(st.o, key)],
                  ret |-> default, exc |-> "none"]
       ELSE [st |-> st,
             ret |-> IF key \in DOMAIN st.c THEN st.c[key] ELSE default,
             exc |-> "none"]

\* a delete that forgets the value map
deleteExpireOnly(st, key) == [c |-> st.c, e |-> Remove(st.e, key), o |-> st.o]

\* a delete that forgets the expiration map
deleteCacheOnly(st, key) ==
    [c |-> Remove(st.c, key), e |-> st.e, o |-> Without(st.o, key)]

\* _SimpleCache.delete(key): both KeyErrors are swallowed
delete(st, key) ==
    [c |-> Remove(st.c, key), e |-> Remove(st.e, key), o |-> Without(st.o, key)]

\* _SimpleCache.has_key(key)
has_key(st, key) == key \in DOMAIN st.c

\* i % f as Python computes it (the result has the sign of f), f # 0
PyMod(i, f) ==
    IF f > 0 THEN i % f
    ELSE LET m == i % (0 - f) IN IF m = 0 THEN 0 ELSE m + f

\* a selection that counts positions from one instead of zero
DoomedOneBased(o, f) ==
    LET F[i \in 0..Len(o)] ==
            IF i = 0 THEN <<>>
            ELSE IF PyMod(i, f) = 0 THEN Append(F[i - 1], o[i]) ELSE F[i - 1]
    IN F[Len(o)]

\* doomed = [k for (i, k) in enumerate(self._cache) if i % self._cull_frequency == 0]
Doomed(o, f) ==
    LET F[i \in 0..Len(o)] ==
            IF i = 0 THEN <<>>
            ELSE IF PyMod(i - 1, f) = 0 THEN Append(F[i - 1], o[i]) ELSE F[i - 1]
    IN F[Len(o)]

\* for k in doomed: self.delete(k)
RECURSIVE DeleteAll(_, _)
DeleteAll(st, ks) ==
    IF ks = <<>> THEN st ELSE DeleteAll(delete(st, Head(ks)), Tail(ks))

\* a cull that takes a frequency of zero to mean "remove nothing"
cullSkipZero(st, f) ==
    IF f = 0 THEN st ELSE DeleteAll(st, Doomed(st.o, f))

\* _SimpleCache._cull()
cull(st, f) ==
    IF f = 0 THEN [c |-> EmptyDict, e |-> EmptyDict, o |-> <<>>]
    ELSE DeleteAll(st, Doomed(st.o, f))

\* a capacity test that fires one entry too late
AtCapacityStrict(st, m) == Len(st.o) > m

\* a capacity test that fires one entry too early
AtCapacityEarly(st, m) == Len(st.o) + 1 >= m

\* "len(self._cache) >= self._max_entries" (line 193)
AtCapacity(st, m) == Len(st.o) >= m

\* a set that culls whatever the entry count is
BeforeWriteAlways(st, m, f) == cull(st, f)

\* the store set() writes into: culled first when at capacity
BeforeWrite(st, m, f) == IF AtCapacity(st, m) THEN cull(st, f) ELSE st

\* the slot of a key in the dict's table: hash(key) & 7 in CPython 2, where a
\* dict of up to five entries has eight slots and is iterated in slot order
\* ({'a': 1, 'b': 2, 'c': 3} is listed a, c, b)
HashSlot == ("a" :> 0) @@ ("c" :> 2) @@ ("b" :> 3)

\* the key order of a dict after d[key] = ...: an existing key keeps its place,
\* a new key is listed where its slot puts it
Place(o, key) ==
    IF \E i \in 1..Len(o) : o[i] = key THEN o
    ELSE SelectSeq(o, LAMBDA k : HashSlot[k] < HashSlot[key]) \o <<key>>
            \o SelectSeq(o, LAMBDA k : HashSlot[k] > HashSlot[key])

\* a set that writes its key first and culls afterwards
setCullAfter(st, key, value, timeout, t) ==
    LET tm == IF timeout = <<>> THEN default_timeout ELSE timeout[1]
        s1 == [c |-> (key :> value) @@ st.c,
               e |-> (key :> (t + tm)) @@ st.e,
               o |-> Place(st.o, key)]
    IN IF AtCapacity(st, _max_entries) THEN cull(s1, _cull_frequency) ELSE s1

\* the timeout argument of set(): <<>> for "timeout=None", <<n>> for a number n
NoTimeout == <<>>

\* a set that skips the capacity test when its key is already stored
setNoCullOnOverwrite(st, key, value, timeout, t) ==
    LET s1 == IF key \in DOMAIN st.c THEN st
              ELSE BeforeWrite(st, _max_entries, _cull_frequency)
        tm == IF timeout = NoTimeout THEN default_timeout ELSE timeout[1]
    IN [c |-> (key :> value) @@ s1.c,
        e |-> (key :> (t + tm)) @@ s1.e,
        o |-> Place(s1.o, key)]

\* a set that takes the default timeout whenever the argument is falsy
setFalsyTimeout(st, key, value, timeout, t) ==
    LET s1 == BeforeWrite(st, _max_entries, _cull_frequency)
        tm == IF timeout = NoTimeout THEN default_timeout
              ELSE IF timeout[1] = 0 THEN default_timeout ELSE timeout[1]
    IN [c |-> (key :> value) @@ s1.c,
        e |-> (key :> (t + tm)) @@ s1.e,
        o |-> Place(s1.o, key)]

\* _SimpleCache.set(key, value, timeout) at time t
set(st, key, value, timeout, t) ==
    LET s1 == BeforeWrite(st, _max_entries, _cull_frequency)
        tm == IF timeout = NoTimeout THEN default_timeout ELSE timeout[1]
    IN [c |-> (key :> value) @@ s1.c,
        e |-> (key :> (t + tm)) @@ s1.e,
        o |-> Place(s1.o, key)]

\* "if val is not None" (line 114)
Kept(val) == val # None

\* _Cache.get_many(keys): get() on each key, in order
RECURSIVE get_many(_, _, _)
get_many(st, keys, t) ==
    IF keys = <<>> THEN [st |-> st, ret |-> EmptyDict, exc |-> "none"]
    ELSE LET n == Len(keys)
             r == get_many(st, SubSeq(keys, 1, n - 1), t)
             g == get(r.st, keys[n], None, t)
         IN IF r.exc # "none" THEN r
            ELSE IF g.exc # "none" THEN [st |-> g.st, ret |-> r.ret, exc |-> g.exc]
            ELSE [st |-> g.st,
                  ret |-> IF Kept(g.ret) THEN (keys[n] :> g.ret) @@ r.ret ELSE r.ret,
                  exc |-> "none"]

\* _Cache.has_key(key): "self.get(key) is not None" (the base class, line 122)
Cache_has_key(st, key, t) == get(st, key, None, t).ret # None

-----------------------------------------------------------------------------
(* _MemcachedCache: every method forwards to the memcache.Client.  A client  *)
(* cl is the record [data |-> what the server holds: key -> [value, timeout],*)
(* call |-> the last call the client received, reply |-> what it returned].  *)

\* "timeout=0" in the signature of _MemcachedCache.set (line 147)
SET_TIMEOUT == 0

NoRemoteCall == [op |-> "none", key |-> None, value |-> None, timeout |-> 0]

\* self._cache = memcache.Client([server]) (line 138), nothing stored yet
NoClient == [data |-> EmptyDict, call |-> NoRemoteCall, reply |-> None]

\* memcache.Client.get(key): the stored value, None when the server has none
Client_get(cl, key) ==
    IF key \in DOMAIN cl.data THEN cl.data[key].value ELSE None

\* _MemcachedCache.get(key, default): the client after it and what it returns
Memcached_get(cl, key, default) ==
    LET val == Client_get(cl, key)
    IN [cl  |-> [data |-> cl.data,
                 call |-> [NoRemoteCall EXCEPT !.op = "get", !.key = key],
                 reply |-> val],
        ret |-> IF val = None THEN default ELSE val]

\* a set that sends the backend's own default timeout when none is given
Memcached_setLocalDefault(cl, key, value, timeout) ==
    LET tm == IF timeout = NoTimeout THEN default_timeout ELSE timeout[1]
    IN [data |-> (key :> [value |-> value, timeout |-> tm]) @@ cl.data,
        call |-> [op |-> "set", key |-> key, value |-> value, timeout |-> tm],
        reply |-> None]

\* _MemcachedCache.set(key, value, timeout=0): <<>> is the omitted timeout
Memcached_set(cl, key, value, timeout) ==
    LET tm == IF timeout = NoTimeout THEN SET_TIMEOUT ELSE timeout[1]
    IN [data |-> (key :> [value |-> value, timeout |-> tm]) @@ cl.data,
        call |-> [op |-> "set", key |-> key, value |-> value, timeout |-> tm],
        reply |-> None]

\* _MemcachedCache.delete(key)
Memcached_delete(cl, key) ==
    [data |-> Remove(cl.data, key),
     call |-> [NoRemoteCall EXCEPT !.op = "delete", !.key = key],
     reply |-> None]

\* _MemcachedCache.get_many(keys): the client's get_multi, the keys it holds
Memcached_get_many(cl, keys) ==
    LET asked == {keys[i] : i \in 1..Len(keys)}
        found == [k \in asked \cap DOMAIN cl.data |-> cl.data[k].value]
    IN [cl  |-> [data |-> cl.data,
                 call |-> [NoRemoteCall EXCEPT !.op = "get_multi", !.key = keys],
                 reply |-> found],
        ret |-> found]

-----------------------------------------------------------------------------
(* Inputs *)

MaxTime == 1

Keys == {"a", "b", "c"}
Values == {"v", None}
Defaults == {None, "dflt"}
Timeouts == {NoTimeout, <<0>>}
KeyLists == {<<>>, <<"b", "a">>, <<"c", "c">>, <<"a", "b", "c">>}

\* the descriptors get_cache is tried on: scheme, separator, location, query
Schemes ==
    {<<"s", "i", "m", "p", "l", "e">>,
     <<"m", "e", "m", "c", "a", "c", "h", "e", "d">>,
     <<"f", "i", "l", "e">>,
     <<"p", "g", "s", "q", "l">>,
     <<"n", "o", "z", "s", "c", "h", "e", "m", "e">>,
     <<"b", "a", "d", "f", "o", "r", "m", "a", "t">>,
     <<>>}
Separators ==
    {<<>>,
     <<":">>,
     <<":", "/">>,
     <<":", "/", "/">>}
Locations ==
    {<<>>,
     <<"/">>,
     <<"x">>,
     <<"x", "/">>,
     <<"h", ":", "1", "/">>}
Queries ==
    {<<>>,
     <<"?">>,
     <<"?", "m", "a", "x", "_", "e", "n", "t", "r", "i", "e", "s", "=", "5">>,
     <<"?", "t", "i", "m", "e", "o", "u", "t", "=", "x", "&", "t", "i", "m", "e", "o", "u", "t", "=", "7">>,
     <<"?", "b", "o", "g", "u", "s", "=", "1", ";", "c", "u", "l", "l", "_", "f", "r", "e", "q", "u", "e", "n", "c", "y", "=", "x">>,
     <<"?", "m", "a", "x", "_", "e", "n", "t", "r", "i", "e", "s", "=", "%", "3", "2", "&", "t", "i", "m", "e", "o", "u", "t", "=", "+", "5">>,
     <<"?", "m", "a", "x", "_", "e", "n", "t", "r", "i", "e", "s", "=", "&", "c", "u", "l", "l", "_", "f", "r", "e", "q", "u", "e", "n", "c", "y", "=", "0">>,
     <<"?", "t", "i", "m", "e", "o", "u", "t", "=", "-", "1", "&", "m", "a", "x", "_", "e", "n", "t", "r", "i", "e", "s">>}
Descriptors ==
    {s \o p \o l \o q : s \in Schemes, p \in Separators, l \in Locations, q \in Queries}

\* the callers of the in-memory backend (threads of one process)
Callers == {"A", "B"}

\* a caller that is inside no call; inside a call, pc is the statement it
\* executes next and key, value, default, doomed are the call's locals
Idle == [pc |-> "idle", key |-> None, value |-> None, default |-> None,
         doomed |-> <<>>]

\* the query values the in-memory backend is configured with (<<>>: not given)
TimeoutTexts ==
    {<<>>,
     <<"-", "1">>,
     <<"0">>,
     <<"1">>}
MaxEntriesTexts ==
    {<<"0">>,
     <<"1">>,
     <<"2">>,
     <<"3">>}
CullFrequencyTexts ==
    {<<>>,
     <<"0">>,
     <<"1">>,
     <<"2">>,
     <<"-", "2">>}

Piece(name, text) == IF text = <<>> THEN <<>> ELSE <<"&">> \o name \o <<"=">> \o text

\* "simple:///?&timeout=..&max_entries=..&cull_frequency=.."
SimpleDescriptor(t, m, f) ==
    S_simple \o <<":", "/", "/", "/", "?">> \o Piece(S_timeout, t)
        \o Piece(S_max_entries, m) \o Piece(S_cull_frequency, f)

\* every capacity with every cull frequency, every given default timeout with
\* a small capacity, and the default capacity with and without a timeout
CacheDescriptors ==
    {SimpleDescriptor(<<"0">>, m, f) : m \in MaxEntriesTexts, f \in CullFrequencyTexts}
    \cup {SimpleDescriptor(t, <<"2">>, <<"2">>) : t \in TimeoutTexts \ {<<>>}}
    \cup {SimpleDescriptor(t, <<>>, <<>>) : t \in {<<>>, <<"0">>}}

\* what the last call found and did: had is the state of its key when it began
\* ("absent", "live", "expired"; "-" where no single key is asked about), culled
\* whether it ran _cull(), ret what it returned, exc what it raised; arg is the
\* default (of get) or the timeout (of set) a call on the networked backend was
\* given
NoCall ==
    [op |-> "none", key |-> None, had |-> "-", culled |-> FALSE, ret |-> None,
     exc |-> "none", arg |-> <<>>]

-----------------------------------------------------------------------------
(* The factory: get_cache(CACHE_BACKEND) at import time (lines 254-255) *)

\* the cache object get_cache(u) returns, before its first use; the descriptor
\* and the constructor's arguments are locals of get_cache the object does not keep
Built(u, imported) ==
    LET r == get_cache(u, imported)
    IN /\ pc = (IF r.raised = "none" THEN "ready" ELSE "failed")
       /\ uri = <<>>
       /\ memcache_ok = imported
       /\ raised = r.raised
       /\ backend = r.backend
       /\ host = <<>>
       /\ params = EmptyDict
       /\ default_timeout = r.default_timeout
       /\ _max_entries = r._max_entries
       /\ _cull_frequency = r._cull_frequency
       /\ _cache = EmptyDict
       /\ _expire_info = EmptyDict
       /\ order = <<>>
       /\ now = 0
       /\ last = NoCall
       /\ client = NoClient
       /\ callers = [c \in Callers |-> Idle]
       /\ overlapped = FALSE

InitFactory ==
    /\ pc = "start"
    /\ uri \in Descriptors
    /\ memcache_ok \in BOOLEAN
    /\ raised = "none"
    /\ backend = "none"
    /\ host = <<>>
    /\ params = EmptyDict
    /\ default_timeout = 0
    /\ _max_entries = 0
    /\ _cull_frequency = 0
    /\ _cache = EmptyDict
    /\ _expire_info = EmptyDict
    /\ order = <<>>
    /\ now = 0
    /\ last = NoCall
    /\ client = NoClient
    /\ callers = [c \in Callers |-> Idle]
    /\ overlapped = FALSE

GetCache ==
    /\ pc = "start"
    /\ LET r == get_cache(uri, memcache_ok)
       IN /\ pc' = (IF r.raised = "none" THEN "ready" ELSE "failed")
          /\ raised' = r.raised
          /\ backend' = r.backend
          /\ host' = r.host
          /\ params' = r.params
          /\ default_timeout' = r.default_timeout
          /\ _max_entries' = r._max_entries
          /\ _cull_frequency' = r._cull_frequency
    /\ UNCHANGED <<uri, memcache_ok, _cache, _expire_info, order, now, last, client,
                 callers, overlapped>>

NextFactory == GetCache

SpecFactory == InitFactory /\ [][NextFactory]_vars

-----------------------------------------------------------------------------
(* The in-memory backend in use by a single caller *)

config == <<pc, uri, memcache_ok, raised, backend, host, params, default_timeout,
            _max_entries, _cull_frequency>>

Init == \E u \in CacheDescriptors : Built(u, TRUE)

Ready == pc = "ready" /\ backend = "simple"

\* the state of key as a call at time t finds it (lines 184-185)
Had(st, key, t) ==
    IF key \notin DOMAIN st.c THEN "absent"
    ELSE IF key \in DOMAIN st.e /\ st.e[key] < t THEN "expired"
    ELSE "live"

Get(key, default) ==
    /\ Ready
    /\ LET r == get(Store, key, default, now)
       IN /\ _cache' = r.st.c
          /\ _expire_info' = r.st.e
          /\ order' = r.st.o
          /\ last' = [NoCall EXCEPT !.op = "get", !.key = key, !.had = Had(Store, key, now),
                                   !.ret = r.ret, !.exc = r.exc]
    /\ UNCHANGED <<config, now, client, callers, overlapped>>

Set(key, value, timeout) ==
    /\ Ready
    /\ LET s1 == set(Store, key, value, timeout, now)
       IN /\ _cache' = s1.c
          /\ _expire_info' = s1.e
          /\ order' = s1.o
    /\ last' = [NoCall EXCEPT !.op = "set", !.key = key, !.had = Had(Store, key, now),
                             !.culled = AtCapacity(Store, _max_entries)]
    /\ UNCHANGED <<config, now, client, callers, overlapped>>

Delete(key) ==
    /\ Ready
    /\ LET s1 == delete(Store, key)
       IN /\ _cache' = s1.c
          /\ _expire_info' = s1.e
          /\ order' = s1.o
    /\ last' = [NoCall EXCEPT !.op = "delete", !.key = key, !.had = Had(Store, key, now)]
    /\ UNCHANGED <<config, now, client, callers, overlapped>>

HasKey(key) ==
    /\ Ready
    /\ last' = [NoCall EXCEPT !.op = "has_key", !.key = key, !.had = Had(Store, key, now),
                             !.ret = has_key(Store, key)]
    /\ UNCHANGED <<config, now, _cache, _expire_info, order, client, callers,
                   overlapped>>

GetMany(keys) ==
    /\ Ready
    /\ LET r == get_many(Store, keys, now)
       IN /\ _cache' = r.st.c
          /\ _expire_info' = r.st.e
          /\ order' = r.st.o
          /\ last' = [NoCall EXCEPT !.op = "get_many", !.key = keys, !.ret = r.ret,
                                   !.exc = r.exc]
    /\ UNCHANGED <<config, now, client, callers, overlapped>>

\* time passes between two calls
Tick ==
    /\ Ready
    /\ now < MaxTime
    /\ now' = now + 1
    /\ last' = [NoCall EXCEPT !.op = "tick"]
    /\ UNCHANGED <<config, _cache, _expire_info, order, client, callers, overlapped>>

Next ==
    \/ \E k \in Keys, d \in Defaults : Get(k, d)
    \/ \E k \in Keys, v \in Values, t \in Timeouts : Set(k, v, t)
    \/ \E k \in Keys : Delete(k)
    \/ \E k \in Keys : HasKey(k)
    \/ \E ks \in KeyLists : GetMany(ks)
    \/ Tick

Spec == Init /\ [][Next]_vars

-----------------------------------------------------------------------------
(* The networked backend in use by a single caller *)

MemcachedTimeouts == {NoTimeout, <<0>>, <<1>>}

\* "memcached://h:1/", without a query or with "?timeout=.."
MemcachedDescriptor(t) ==
    S_memcached \o <<":", "/", "/", "h", ":", "1", "/">>
        \o (IF t = <<>> THEN <<>> ELSE <<"?">> \o S_timeout \o <<"=">> \o t)

MemcachedDescriptors == {MemcachedDescriptor(t) : t \in TimeoutTexts}

InitMemcached == \E u \in MemcachedDescriptors : Built(u, TRUE)

MemcachedReady == pc = "ready" /\ backend = "memcached"

local == <<_cache, _expire_info, order, now, callers, overlapped>>

MemcachedGet(key, default) ==
    /\ MemcachedReady
    /\ LET r == Memcached_get(client, key, default)
       IN /\ client' = r.cl
          /\ last' = [NoCall EXCEPT !.op = "get", !.key = key, !.arg = default,
                                   !.ret = r.ret]
    /\ UNCHANGED <<config, local>>

MemcachedSet(key, value, timeout) ==
    /\ MemcachedReady
    /\ client' = Memcached_set(client, key, value, timeout)
    /\ last' = [NoCall EXCEPT !.op = "set", !.key = key, !.arg = timeout]
    /\ UNCHANGED <<config, local>>

MemcachedDelete(key) ==
    /\ MemcachedReady
    /\ client' = Memcached_delete(client, key)
    /\ last' = [NoCall EXCEPT !.op = "delete", !.key = key]
    /\ UNCHANGED <<config, local>>

MemcachedGetMany(keys) ==
    /\ MemcachedReady
    /\ LET r == Memcached_get_many(client, keys)
       IN /\ client' = r.cl
          /\ last' = [NoCall EXCEPT !.op = "get_many", !.key = keys, !.ret = r.ret]
    /\ UNCHANGED <<config, local>>

\* the server drops an item on its own (its expiry, its eviction under memory
\* pressure): nothing the backend does
ServerDrops(key) ==
    /\ MemcachedReady
    /\ key \in DOMAIN client.data
    /\ client' = [client EXCEPT !.data = Remove(client.data, key)]
    /\ UNCHANGED <<config, local, last>>

NextMemcached ==
    \/ \E k \in Keys, d \in Defaults : MemcachedGet(k, d)
    \/ \E k \in Keys, v \in Values, t \in MemcachedTimeouts : MemcachedSet(k, v, t)
    \/ \E k \in Keys : MemcachedDelete(k)
    \/ \E ks \in KeyLists : MemcachedGetMany(ks)
    \/ \E k \in Keys : ServerDrops(k)

SpecMemcached == InitMemcached /\ [][NextMemcached]_vars

C14_WitnessGet ==
    /\ backend = "memcached" /\ last.op = "get"
    /\ client.reply = None /\ last.arg = "dflt" /\ last.ret = "dflt"
    /\ \E j \in DOMAIN client.data : client.data[j].timeout = 1

-----------------------------------------------------------------------------
(* The in-memory backend in use by two callers whose calls interleave: every *)
(* step is one read or one write of a map.  A caller's entry into a call is  *)
(* merged with the call's first access of a map (nothing before it is        *)
(* shared), and the list comprehension of _cull is one read of _cache.  The  *)
(* callers use get, set and delete; has_key is a single read of _cache.      *)

\* a capacity of one; a cull that flushes, with a default timeout that keeps
\* entries live, and a cull that selects, with a default timeout that makes
\* entries expired as soon as they are written
ConcurrentDescriptors ==
    {SimpleDescriptor(<<"0">>, <<"1">>, <<"0">>),
     SimpleDescriptor(<<"-", "1">>, <<"1">>, <<"2">>)}

InitConcurrent == \E u \in ConcurrentDescriptors : Built(u, TRUE)

\* del self._cache[key] where key is stored (lines 186, 202)
DelCache(st, key) == [c |-> Remove(st.c, key), e |-> st.e, o |-> Without(st.o, key)]

\* del self._expire_info[key] where key is stored (lines 187, 206)
DelExpire(st, key) == [c |-> st.c, e |-> Remove(st.e, key), o |-> st.o]

\* self._cache[key] = value (line 197)
PutCache(st, key, value) ==
    [c |-> (key :> value) @@ st.c, e |-> st.e, o |-> Place(st.o, key)]

\* an assignment of the expiration that is lost
PutExpireLost(st, key, exp) == st

\* self._expire_info[key] = time.time() + timeout (line 198)
PutExpire(st, key, exp) == [c |-> st.c, e |-> (key :> exp) @@ st.e, o |-> st.o]

\* another caller is inside a call
Busy(c) == \E d \in Callers \ {c} : callers[d].pc # "idle"

\* caller c takes a step that leaves the store st and c's frame fr
Goes(c, st, fr) ==
    /\ _cache' = st.c
    /\ _expire_info' = st.e
    /\ order' = st.o
    /\ callers' = [callers EXCEPT ![c] = fr]
    /\ overlapped' = (overlapped \/ Busy(c))
    /\ UNCHANGED <<config, now, last, client>>

\* caller c takes the last step of its call, which leaves the store st
Returns(c, st, call) ==
    /\ _cache' = st.c
    /\ _expire_info' = st.e
    /\ order' = st.o
    /\ callers' = [callers EXCEPT ![c] = Idle]
    /\ last' = call
    /\ overlapped' = (overlapped \/ Busy(c))
    /\ UNCHANGED <<config, now, client>>

At(c, label) == Ready /\ callers[c].pc = label

\* get, lines 183-185: read the expiration and choose the branch
CallGet(c, key, default) ==
    /\ At(c, "idle")
    /\ LET exp == IF key \in DOMAIN _expire_info THEN _expire_info[key] ELSE now
       IN Goes(c, Store, [Idle EXCEPT !.key = key, !.default = default,
                              !.pc = IF IsExpired(exp, now) THEN "get_del_cache"
                                     ELSE "get_read"])

\* get, line 186: del self._cache[key], a KeyError when the key is gone
GetDelCache(c) ==
    /\ At(c, "get_del_cache")
    /\ LET f == callers[c]
       IN IF f.key \in DOMAIN _cache
          THEN Goes(c, DelCache(Store, f.key), [f EXCEPT !.pc = "get_del_expire"])
          ELSE Returns(c, Store, [NoCall EXCEPT !.op = "get", !.key = f.key,
                                               !.exc = "KeyError"])

\* get, lines 187-188: del self._expire_info[key]; return default
GetDelExpire(c) ==
    /\ At(c, "get_del_expire")
    /\ LET f == callers[c]
       IN IF f.key \in DOMAIN _expire_info
          THEN Returns(c, DelExpire(Store, f.key),
                       [NoCall EXCEPT !.op = "get", !.key = f.key, !.ret = f.default])
          ELSE Returns(c, Store, [NoCall EXCEPT !.op = "get", !.key = f.key,
                                               !.exc = "KeyError"])

\* get, line 190: return self._cache.get(key, default)
GetRead(c) ==
    /\ At(c, "get_read")
    /\ LET f == callers[c]
       IN Returns(c, Store,
                  [NoCall EXCEPT !.op = "get", !.key = f.key,
                                 !.ret = IF f.key \in DOMAIN _cache THEN _cache[f.key]
                                         ELSE f.default])

\* set, lines 193-194 and 214: the capacity test, and the branch of _cull
CallSet(c, key, value) ==
    /\ At(c, "idle")
    /\ Goes(c, Store, [Idle EXCEPT !.key = key, !.value = value,
                           !.pc = IF ~AtCapacity(Store, _max_entries) THEN "set_cache"
                                  ELSE IF _cull_frequency = 0 THEN "cull_clear_cache"
                                  ELSE "cull_doomed"])

\* _cull, line 215: self._cache.clear()
CullClearCache(c) ==
    /\ At(c, "cull_clear_cache")
    /\ Goes(c, [c |-> EmptyDict, e |-> _expire_info, o |-> <<>>],
            [callers[c] EXCEPT !.pc = "cull_clear_expire"])

\* _cull, line 216: self._expire_info.clear()
CullClearExpire(c) ==
    /\ At(c, "cull_clear_expire")
    /\ Goes(c, [c |-> _cache, e |-> EmptyDict, o |-> order],
            [callers[c] EXCEPT !.pc = "set_cache"])

\* _cull, line 218: doomed = [k for (i, k) in enumerate(self._cache) if ...]
CullDoomed(c) ==
    /\ At(c, "cull_doomed")
    /\ LET doomed == Doomed(order, _cull_frequency)
       IN Goes(c, Store, [callers[c] EXCEPT !.doomed = doomed,
                              !.pc = IF doomed = <<>> THEN "set_cache"
                                     ELSE "cull_del_cache"])

\* _cull's self.delete(k), lines 201-204: del self._cache[k], KeyError swallowed
CullDelCache(c) ==
    /\ At(c, "cull_del_cache")
    /\ Goes(c, DelCache(Store, Head(callers[c].doomed)),
            [callers[c] EXCEPT !.pc = "cull_del_expire"])

\* _cull's self.delete(k), lines 205-208, and the loop's next turn (line 219)
CullDelExpire(c) ==
    /\ At(c, "cull_del_expire")
    /\ LET f == callers[c]
       IN Goes(c, DelExpire(Store, Head(f.doomed)),
               [f EXCEPT !.doomed = Tail(f.doomed),
                         !.pc = IF Tail(f.doomed) = <<>> THEN "set_cache"
                                ELSE "cull_del_cache"])

\* set, line 197
SetCache(c) ==
    /\ At(c, "set_cache")
    /\ Goes(c, PutCache(Store, callers[c].key, callers[c].value),
            [callers[c] EXCEPT !.pc = "set_expire"])

\* set, lines 195-196 and 198: no timeout was given, the default one is used;
\* arg records the value the call was given
SetExpire(c) ==
    /\ At(c, "set_expire")
    /\ LET f == callers[c]
       IN Returns(c, PutExpire(Store, f.key, now + default_timeout),
                  [NoCall EXCEPT !.op = "set", !.key = f.key, !.arg = f.value])

\* delete, lines 201-204
CallDelete(c, key) ==
    /\ At(c, "idle")
    /\ Goes(c, DelCache(Store, key), [Idle EXCEPT !.key = key, !.pc = "delete_expire"])

\* delete, lines 205-208
DeleteExpire(c) ==
    /\ At(c, "delete_expire")
    /\ Returns(c, DelExpire(Store, callers[c].key),
               [NoCall EXCEPT !.op = "delete", !.key = callers[c].key])

NextConcurrent ==
    \E c \in Callers :
        \/ \E k \in Keys : CallGet(c, k, "dflt")
        \/ GetDelCache(c)
        \/ GetDelExpire(c)
        \/ GetRead(c)
        \/ \E k \in Keys : CallSet(c, k, "v")
        \/ CullClearCache(c)
        \/ CullClearExpire(c)
        \/ CullDoomed(c)
        \/ CullDelCache(c)
        \/ CullDelExpire(c)
        \/ SetCache(c)
        \/ SetExpire(c)
        \/ \E k \in Keys : CallDelete(c, k)
        \/ DeleteExpire(c)

SpecConcurrent == InitConcurrent /\ [][NextConcurrent]_vars

Quiet == \A c \in Callers : callers[c].pc = "idle"

-----------------------------------------------------------------------------
(* Properties of the in-memory backend (checked under Spec) *)

Stored == DOMAIN _cache \cap DOMAIN _expire_info

Count == Cardinality(DOMAIN _cache)

\* C1 as stated: get(key, default) returns the stored value when the stored
\* expiration e is strictly greater than the read time; in every other case
\* (e <= now) it returns default and removes the key from both maps.
C1_StrictlyFuture ==
    Ready =>
        \A k \in Stored, d \in Defaults :
            LET r == get(Store, k, d, now)
            IN IF _expire_info[k] > now
               THEN r.exc = "none" /\ r.ret = _cache[k]
               ELSE /\ r.exc = "none" /\ r.ret = d
                    /\ k \notin DOMAIN r.st.c /\ k \notin DOMAIN r.st.e

\* C1 amended: get(key, default) returns the stored value, and changes nothing,
\* when the stored expiration e is at or after the read time (e >= now); when
\* e < now it returns default and removes the key from both maps.
C1_VisibleUntilPast ==
    Ready =>
        \A k \in Stored, d \in Defaults :
            LET r == get(Store, k, d, now)
            IN IF _expire_info[k] >= now
               THEN r.exc = "none" /\ r.ret = _cache[k] /\ r.st = Store
               ELSE /\ r.exc = "none" /\ r.ret = d
                    /\ k \notin DOMAIN r.st.c /\ k \notin DOMAIN r.st.e

\* a get has found its key expired, returned the default and purged the key
C1_Witness ==
    /\ last.op = "get" /\ last.had = "expired" /\ last.ret = "dflt"
    /\ last.key \notin DOMAIN _cache /\ last.key \notin DOMAIN _expire_info

\* C2 as stated: has_key(key) returns the same boolean as (get(key) is not None)
\* evaluated in the same state; in particular it is False for a key whose entry
\* has expired but has not been read.
C2_HasKeyIsGetNotNone ==
    (Ready /\ last.op = "has_key") =>
        /\ last.ret = (get(Store, last.key, None, now).ret # None)
        /\ (last.had = "expired" => last.ret = FALSE)

\* C3 as stated: for every max_entries and cull_frequency the constructor
\* accepts, the entry count after a set that began at or above max_entries is
\* at most max_entries, and so the count never exceeds max_entries.
C3_NeverAboveCapacity ==
    Ready =>
        /\ (last.op = "set" /\ last.culled) => Count <= _max_entries
        /\ Count <= _max_entries

\* C3 amended: for every max_entries >= 1 and every cull_frequency the
\* constructor accepts, the entry count after a set that began at or above
\* max_entries is at most max_entries, and the count never exceeds max_entries.
C3_NeverAbovePositiveCapacity ==
    (Ready /\ _max_entries >= 1) =>
        /\ (last.op = "set" /\ last.culled) => Count <= _max_entries
        /\ Count <= _max_entries

\* a set that began at capacity has culled and left the store full again
C3_Witness ==
    /\ last.op = "set" /\ last.culled /\ last.had = "absent"
    /\ _max_entries = 2 /\ Count = 2

\* the mapping the claim expects of get_many(keys): the requested keys that are
\* stored and not expired, each with its stored value
C5_Expected(keys) ==
    LET wanted == {keys[i] : i \in 1..Len(keys)}
        there  == {k \in wanted \cap Stored : _expire_info[k] >= now}
    IN [k \in there |-> _cache[k]]

\* C5 as stated: get_many(keys) returns a mapping whose keys are exactly the
\* requested keys that are present and unexpired, each with its stored value,
\* for every value set can store, None included.
C5_GetManyIsPresentSubset ==
    Ready => \A ks \in KeyLists : get_many(Store, ks, now).ret = C5_Expected(ks)

\* C6 as stated: for every default timeout the constructor accepts and from
\* every reachable state, a get(key) issued immediately after set(key, value)
\* returns value.
C6_ReadYourWrite ==
    Ready =>
        \A k \in Keys, v \in Values, d \in Defaults :
            LET r == get(set(Store, k, v, NoTimeout, now), k, d, now)
            IN r.exc = "none" /\ r.ret = v

\* C6 amended: for every default timeout >= 0 the constructor accepts, a
\* get(key) issued immediately after set(key, value) returns value.
C6_ReadYourWriteNonNegative ==
    (Ready /\ default_timeout >= 0) =>
        \A k \in Keys, v \in Values, d \in Defaults :
            LET r == get(set(Store, k, v, NoTimeout, now), k, d, now)
            IN r.exc = "none" /\ r.ret = v

\* a set with the default timeout has just culled and written its key, which
\* expires at this very time, and a get of that key returns the value
C6_Witness ==
    /\ last.op = "set" /\ last.culled /\ default_timeout = 0
    /\ _max_entries = 2 /\ Count = 2
    /\ last.key \in Stored /\ _expire_info[last.key] = now
    /\ get(Store, last.key, "dflt", now).ret = _cache[last.key]

\* C7: delete(key) removes key from both maps, so that a following get returns
\* the default; delete of an absent key (a second delete too) changes nothing;
\* delete never changes the value or expiration of another key.
C7_DeleteEffective ==
    Ready =>
        \A k \in Keys :
            LET s1 == delete(Store, k)
            IN /\ k \notin DOMAIN s1.c /\ k \notin DOMAIN s1.e
               /\ \A d \in Defaults :
                     get(s1, k, d, now) = [st |-> s1, ret |-> d, exc |-> "none"]
               /\ (k \notin DOMAIN _cache \cup DOMAIN _expire_info) => s1 = Store
               /\ delete(s1, k) = s1
               /\ DOMAIN s1.c = DOMAIN _cache \ {k}
               /\ DOMAIN s1.e = DOMAIN _expire_info \ {k}
               /\ \A j \in DOMAIN s1.c : s1.c[j] = _cache[j]
               /\ \A j \in DOMAIN s1.e : s1.e[j] = _expire_info[j]

\* a delete has removed a stored key and left another key stored
C7_Witness ==
    /\ last.op = "delete" /\ last.had = "live" /\ last.exc = "none"
    /\ last.key \notin DOMAIN _cache /\ last.key \notin DOMAIN _expire_info
    /\ _cache # EmptyDict

\* C8: get(key, default) for a key that is not stored returns default, raises
\* nothing and leaves both maps unchanged.
C8_MissIsDefault ==
    Ready =>
        \A k \in Keys \ DOMAIN _cache, d \in Defaults :
            get(Store, k, d, now) = [st |-> Store, ret |-> d, exc |-> "none"]

\* a get of a key that was not stored has returned the default, after time has
\* passed and with other keys stored
C8_Witness ==
    /\ last.op = "get" /\ last.had = "absent" /\ last.ret = "dflt" /\ last.exc = "none"
    /\ now > 0 /\ _cache # EmptyDict

\* C11: with cull_frequency = 0, for every max_entries and every state whose
\* entry count is at least max_entries, set(key, value) empties both maps and
\* then writes, so that the store holds exactly the one entry key -> value.
C11_FlushThenWrite ==
    (Ready /\ _cull_frequency = 0) =>
        /\ Count >= _max_entries =>
              \A k \in Keys, v \in Values, t \in Timeouts :
                  LET s1 == set(Store, k, v, t, now)
                  IN s1.c = (k :> v) /\ DOMAIN s1.e = {k} /\ s1.o = <<k>>
        /\ (last.op = "set" /\ last.culled) =>
              DOMAIN _cache = {last.key} /\ DOMAIN _expire_info = {last.key}

\* a set that began with a full store of two and a cull frequency of zero has
\* left its own key as the only entry
C11_Witness ==
    /\ last.op = "set" /\ last.culled /\ last.had = "absent"
    /\ _cull_frequency = 0 /\ _max_entries = 2
    /\ DOMAIN _cache = {last.key} /\ DOMAIN _expire_info = {last.key}

\* the keys at the positions of the order o (counted from zero) that are no
\* multiple of f
C12_Survivors(o, f) ==
    LET a == IF f < 0 THEN 0 - f ELSE f
    IN {o[i] : i \in {j \in 1..Len(o) : (j - 1) % a # 0}}

\* C12: with cull_frequency f # 0, the cull of a set that begins at or above
\* max_entries removes from both maps exactly the entries at the positions
\* 0, f, 2f, ... of the storage order, whatever their values and expirations;
\* every other entry keeps its value and its expiration.
C12_CullByPosition ==
    (Ready /\ _cull_frequency # 0 /\ Count >= _max_entries) =>
        LET keep == C12_Survivors(order, _cull_frequency)
            s1   == cull(Store, _cull_frequency)
        IN /\ DOMAIN s1.c = keep /\ DOMAIN s1.e = keep
           /\ \A j \in keep : s1.c[j] = _cache[j] /\ s1.e[j] = _expire_info[j]
           /\ \A k \in Keys, v \in Values, t \in Timeouts :
                 LET s2 == set(Store, k, v, t, now)
                 IN /\ DOMAIN s2.c = keep \cup {k} /\ DOMAIN s2.e = keep \cup {k}
                    /\ \A j \in keep \ {k} :
                          s2.c[j] = _cache[j] /\ s2.e[j] = _expire_info[j]

\* a set that began with three entries, a capacity of three and a cull
\* frequency of two has removed the entries at positions 0 and 2 and kept the
\* one at position 1
C12_Witness ==
    /\ last.op = "set" /\ last.culled
    /\ _cull_frequency = 2 /\ _max_entries = 3
    /\ last.key # "c" /\ DOMAIN _cache = {"c", last.key}

\* C13: set(key, value, timeout) stores value under key with the expiration
\* now + timeout, the configured default timeout when timeout is omitted; the
\* value and the expiration of a key that is already stored are both replaced,
\* whether the old entry was live or expired.
C13_SetStores ==
    Ready =>
        /\ \A k \in Keys, v \in Values, t \in Timeouts :
              LET s1 == set(Store, k, v, t, now)
              IN /\ k \in DOMAIN s1.c /\ s1.c[k] = v
                 /\ k \in DOMAIN s1.e
                 /\ s1.e[k] = now + (IF t = <<>> THEN default_timeout ELSE t[1])
        /\ last.op = "set" =>
              /\ last.key \in Stored
              /\ _expire_info[last.key] \in {now + default_timeout, now}

\* a set without a timeout has replaced an expired entry of its key, which now
\* expires the default 300 seconds from the time of the set
C13_Witness ==
    /\ last.op = "set" /\ last.had = "expired" /\ default_timeout = 300
    /\ last.key \in Stored /\ _expire_info[last.key] = now + 300

\* C19: with a single caller, after every completed operation the value map
\* and the expiration map have exactly the same set of keys.
C19_SameKeys ==
    Ready => DOMAIN _cache = DOMAIN _expire_info

\* a get has purged an expired entry while other entries stay stored, and the
\* two maps hold the same keys
C19_Witness ==
    /\ last.op = "get" /\ last.had = "expired" /\ last.exc = "none"
    /\ _cache # EmptyDict /\ DOMAIN _cache = DOMAIN _expire_info
    /\ last.key \notin DOMAIN _expire_info

\* C20: the capacity test looks at the entry count only: a set that overwrites
\* a stored key while the count is at or above max_entries still culls (the
\* entries left are the cull's survivors and the written key), and after it
\* the written key is present with the new value.
C20_OverwriteStillCulls ==
    (Ready /\ Count >= _max_entries) =>
        \A k \in DOMAIN _cache, v \in Values, t \in Timeouts :
            LET s1   == set(Store, k, v, t, now)
                keep == IF _cull_frequency = 0 THEN {}
                        ELSE C12_Survivors(order, _cull_frequency)
            IN /\ DOMAIN s1.c = keep \cup {k} /\ DOMAIN s1.e = keep \cup {k}
               /\ s1.c[k] = v
               /\ \A d \in Defaults : t = <<0>> => get(s1, k, d, now).ret = v

\* at time 0, where every stored entry is live, a set that overwrote a live
\* key of a full store of three has culled and evicted another entry
C20_Witness ==
    /\ last.op = "set" /\ last.had = "live" /\ last.culled
    /\ now = 0 /\ default_timeout = 0 /\ _max_entries = 3
    /\ Count < 3 /\ last.key \in Stored

\* the entry of key j is the same before and after a step
C15_Untouched(j) ==
    /\ j \in DOMAIN _cache' /\ j \in DOMAIN _expire_info'
    /\ _cache'[j] = _cache[j] /\ _expire_info'[j] = _expire_info[j]

\* the keys a get_many call was given
C15_Asked(keys) == {keys[i] : i \in 1..Len(keys)}

\* C15: an entry whose expiration the clock has passed stays stored, and counts
\* in the capacity test, until get(key), a get_many that contains key,
\* delete(key), a set that overwrites key, or the cull of a set that began at
\* capacity touches it; the passing of time and the other operations (has_key
\* of any key, operations on other keys below capacity) leave it as it is.
C15_LazyExpiration ==
    [][\A j \in DOMAIN _cache :
          (j \in DOMAIN _expire_info /\ _expire_info[j] < now) =>
              /\ \E i \in 1..Len(order) : order[i] = j
              /\ \/ C15_Untouched(j)
                 \/ last'.op \in {"get", "delete"} /\ last'.key = j
                 \/ last'.op = "get_many" /\ j \in C15_Asked(last'.key)
                 \/ last'.op = "set" /\ last'.key = j
                 \/ last'.op = "set" /\ last'.culled /\ Count >= _max_entries]_vars

\* an expired entry is still stored, unchanged, after a set of another key
\* that began below capacity
C15_Witness ==
    /\ last.op = "set" /\ ~last.culled
    /\ \E j \in Stored \ {last.key} : _expire_info[j] < now

\* C16: eviction runs only inside set, and only when the entry count at the
\* start of the set is at least max_entries: a set that begins below
\* max_entries changes no entry but its own key's, and get, has_key, get_many
\* and delete never remove or change a live entry of a key they were not
\* asked about.
C16_EvictionOnlyInFullSet ==
    [][/\ (last'.op = "set" /\ last'.culled) => Count >= _max_entries
       /\ \A j \in DOMAIN _cache :
             \/ C15_Untouched(j)
             \/ last'.op = "set" /\ last'.key = j
             \/ last'.op = "set" /\ last'.culled
             \/ last'.op = "delete" /\ last'.key = j
             \/ /\ last'.op = "get" /\ last'.key = j
                /\ j \in DOMAIN _expire_info /\ _expire_info[j] < now
             \/ /\ last'.op = "get_many" /\ j \in C15_Asked(last'.key)
                /\ j \in DOMAIN _expire_info /\ _expire_info[j] < now]_vars

\* a set that began below capacity has left two other live entries stored
C16_Witness ==
    /\ last.op = "set" /\ ~last.culled /\ last.had = "absent"
    /\ Count = 3 /\ \A j \in Stored : _expire_info[j] >= now

-----------------------------------------------------------------------------
(* Properties of the in-memory backend with interleaved callers (checked     *)
(* under SpecConcurrent)                                                     *)

\* a key is in exactly one of the two maps
C17_Split == DOMAIN _cache # DOMAIN _expire_info

\* the last call to complete is a set whose value is not stored
C17_Lost ==
    /\ last.op = "set" /\ last.exc = "none"
    /\ (last.key \notin DOMAIN _cache \/ _cache[last.key] # last.arg)

\* more entries than a positive max_entries
C17_Over == _max_entries >= 1 /\ Count > _max_entries

\* C17: the races of the in-memory backend are reachable with two callers
\* interleaved at the grain of single map reads and writes (C17_Witness: with
\* no call in progress, a key is in exactly one map, a completed set's value is
\* lost and the count is above max_entries), and they come from the
\* interleaving: while no caller has run inside another's call, none of the
\* three holds between calls.
C17_RacesComeFromInterleaving ==
    (Ready /\ Quiet /\ ~overlapped) => ~C17_Split /\ ~C17_Lost /\ ~C17_Over

\* no call is in progress, calls have interleaved, and the store shows all
\* three races at once
C17_Witness ==
    /\ Ready /\ Quiet /\ overlapped
    /\ C17_Split /\ C17_Lost /\ C17_Over

\* C18 as stated: no operation of the in-memory backend ends in a raised
\* error, in any reachable state, the states reached by interleaving two
\* callers included.
C18_NeverRaises ==
    Ready => last.exc = "none"

-----------------------------------------------------------------------------
(* Properties of get_cache and the constructors (checked under SpecFactory) *)

\* the text after the first ':' of a descriptor
AfterColon(u) == SliceFrom(u, Find(u, ":") + 1)

\* the location the claim describes: the text between the leading '//' and the
\* '?' of the query (or the end), without one trailing slash
C4_Location(u) ==
    LET body == SliceFrom(AfterColon(u), 2)
        q    == Find(body, "?")
        loc  == IF q = -1 THEN body ELSE Slice(body, 0, q)
    IN IF EndsWith(loc, "/") THEN Slice(loc, 0, Len(loc) - 1) ELSE loc

\* the query text of a descriptor, <<>> without one
C4_Query(u) ==
    LET q == Find(AfterColon(u), "?")
    IN IF q = -1 THEN <<>> ELSE SliceFrom(AfterColon(u), q + 1)

\* C4 as stated: the constructor is called with the location between the
\* leading '//' and the optional trailing slash, the same with or without a
\* '?query' part, and with the decoded query pairs as params.
C4_LocationAndParams ==
    pc = "ready" =>
        /\ host = C4_Location(uri)
        /\ params = dict(parse_qsl(C4_Query(uri)))

\* the descriptors the claim says are rejected
C9_Rejected(u) ==
    \/ \A i \in 1..Len(u) : u[i] # ":"
    \/ ~StartsWith(AfterColon(u), <<"/", "/">>)
    \/ Slice(u, 0, Find(u, ":")) \notin {S_memcached, S_simple}

\* C9 as stated: get_cache raises InvalidCacheBackendError, and constructs no
\* backend, exactly for the rejected descriptors; every other descriptor yields
\* a backend instance.
C9_RejectsExactlyMalformed ==
    pc # "start" =>
        /\ (raised = "InvalidCacheBackendError") = C9_Rejected(uri)
        /\ C9_Rejected(uri) => backend = "none"
        /\ ~C9_Rejected(uri) => (raised = "none" /\ backend \in {"simple", "memcached"})

\* the value the claim expects for a parameter: the integer its text is
\* coercible to, the default when it is missing or not coercible
C10_Expected(p, name, dflt) ==
    IF name \in DOMAIN p /\ int(p[name]).ok THEN int(p[name]).val ELSE dflt

=============================================================================
